---------------------------- MODULE Spec2Model ----------------------------
(***************************************************************************)
(* Model of app/(tabs)/index.tsx and constants/imageToSensor:              *)
(*   - the process-wide caches tfInitialized and modelCache,               *)
(*   - initializeTensorFlow, loadModelAsync and initializeApp, one step    *)
(*     per asynchronous suspension point,                                  *)
(*   - the HomeScreen component state and its render gates,                *)
(*   - handleCapture, handleImageUpload, processImage and imageToTensor,   *)
(*     with the count of live tensors of the tfjs backend.                 *)
(* JavaScript is single threaded: every action is the code that runs       *)
(* between two suspension points (an await, or a UI event).                *)
(***************************************************************************)
EXTENDS Integers, Sequences, FiniteSets, TLC

\* ------------------------------------------------------------------ bounds
\* Number of initializeApp runs (mount effects and Retry presses) explored.
MaxRuns == 2
\* Number of times HomeScreen is mounted (1 = never remounted).
MaxMounts == 2
\* Number of Take Photo / Upload Image presses explored.
MaxCalls == 2

Runs == 1..MaxRuns
Calls == 1..MaxCalls

\* A model handle is a positive number; 0 is JavaScript null.
NoModel == 0

VARIABLES
  tfInitialized,   \* line 26: let tfInitialized = false
  modelCache,      \* line 27: let modelCache = null
  numTensors,      \* tf.memory().numTensors: live tensors of the backend
  built,           \* number of models tf.loadLayersModel has constructed
  warmed,          \* handles whose warm-up inference has returned
  permission,      \* useCameraPermissions(): "null" | "denied" | "granted"
  curInst,         \* the mounted HomeScreen instance (0 before the first mount)
  ui,              \* useState values of the mounted instance
  nRuns,           \* initializeApp runs started so far
  run,             \* run[r]: one initializeApp invocation
  nCalls,          \* handleCapture / handleImageUpload invocations so far
  call,            \* call[c]: one handleCapture / handleImageUpload invocation
  lastDone,        \* history: how the last completed handler call ended
  predictFailed,   \* history: some processImage has run its catch block
  img,             \* the RawImageData that jpeg.decode returns (line 572)
  it               \* the locals of one imageToTensor invocation, run alone

\* The module-level state and the backend's.
process == <<tfInitialized, modelCache, numTensors, built, warmed>>

\* The handler calls and their history.
captures == <<nCalls, call, lastDone, predictFailed>>

\* The data path of imageToTensor, studied on its own.
pixels == <<img, it>>

\* Everything the application itself reads and writes.
app == <<process, permission, curInst, ui, nRuns, run, captures>>

vars == <<tfInitialized, modelCache, numTensors, built, warmed, permission,
          curInst, ui, nRuns, run, nCalls, call, lastDone, predictFailed,
          img, it>>

\* ------------------------------------------------------- component state
\* lines 85-95: the useState initial values.
InitialUI ==
  [ loadingProgress |-> 0,
    isReady |-> FALSE,
    model |-> NoModel,
    error |-> "null",
    analyzing |-> FALSE,
    predictionResult |-> <<>> ]

\* A state setter called by a closure of instance i: React drops updates of
\* an unmounted instance.
SetUI(i, newui) == IF i = curInst THEN newui ELSE ui

\* lines 265-325: which screen HomeScreen renders.
Screen ==
  IF curInst = 0 THEN "unmounted"
  ELSE IF ui.error # "null" THEN "error"
  ELSE IF permission = "null" THEN "permissionLoading"
  ELSE IF permission # "granted" THEN "permissionDenied"
  ELSE IF ~ui.isReady \/ ui.model = NoModel THEN "loading"
  ELSE "main"

\* ------------------------------------------------------------ task records
IdleRun ==
  [ pc |-> "idle", inst |-> 0,
    tfAtEntry |-> FALSE,   \* tfInitialized as initializeTensorFlow found it
    ranSetup |-> FALSE,    \* this call invoked tf.ready()
    tfRet |-> "none",      \* what initializeTensorFlow returned
    cacheAtEntry |-> -1,   \* modelCache as loadModelAsync found it (-1: not called)
    progress |-> <<>>,     \* values passed to onProgress, in order
    loaded |-> NoModel,    \* loadedModel
    ret |-> NoModel,       \* the handle loadModelAsync resolved with
    threw |-> FALSE,       \* loadModelAsync rejected
    dummyLive |-> FALSE,   \* dummyInput allocated and not disposed
    warmOutLive |-> FALSE  \* result of the warm-up predict not disposed
  ]

IdleCall ==
  [ pc |-> "idle", inst |-> 0,
    model |-> NoModel,     \* `model` as the handler's closure captured it
    interLive |-> 0,       \* imageTensor and resized of imageToTensor still live
    inLive |-> FALSE,      \* the batched input tensor is live
    outLive |-> FALSE,     \* the prediction tensor is live
    afterFail |-> FALSE,   \* an earlier processImage had failed when this began
    out |-> <<>>           \* `result`: what prediction.data() resolved with
  ]

\* A handler call that has returned holds nothing any more.
DoneCall == [IdleCall EXCEPT !.pc = "done"]

\* A finished initializeApp run: only how it ended remains.
EndedRun(how) == [IdleRun EXCEPT !.pc = how]

\* What lastDone records of a call when it returns.
Ended(cl, how) ==
  [ result |-> how, interLive |-> cl.interLive, inLive |-> cl.inLive,
    outLive |-> cl.outLive, afterFail |-> cl.afterFail, out |-> cl.out ]

NoCall == Ended(IdleCall, "none")

AppInit ==
  /\ tfInitialized = FALSE
  /\ modelCache = NoModel
  /\ numTensors = 0
  /\ built = 0
  /\ warmed = {}
  /\ permission = "null"
  /\ curInst = 0
  /\ ui = InitialUI
  /\ nRuns = 0
  /\ run = [r \in Runs |-> IdleRun]
  /\ nCalls = 0
  /\ call = [c \in Calls |-> IdleCall]
  /\ lastDone = NoCall
  /\ predictFailed = FALSE

\* No image is being converted step by step while the application runs: the
\* application sees imageToTensor through ProcessImageStart's outcomes.
NoImage == [width |-> 0, height |-> 0, data |-> <<>>]

NotConverting ==
  [pc |-> "idle", i |-> 0, offset |-> 0, buffer |-> <<>>, shape |-> <<>>,
   row |-> 0 - 1]

Init ==
  /\ AppInit
  /\ img = NoImage
  /\ it = NotConverting


\* ------------------------------------------------------------ event loop
\* The continuation of an await whose promise is already settled (lines 106,
\* 70, 114, 212, 249: an async function that returned, a non-promise value)
\* is a microtask: the JavaScript job queue runs it before the next UI
\* event or native callback is delivered.  These positions are entered by
\* one task at a time and left before anything else runs.
MicrotaskPending ==
  \/ \E r \in Runs : run[r].pc \in {"tfDone", "warming", "loadDone", "loadThrown"}
  \/ \E c \in Calls : call[c].pc \in {"decoded", "decodeFailed"}

\* ------------------------------------------------- initializeTensorFlow
\* Mutant of TfGuard: the guard is missing.
TfGuardNever(flag) == FALSE

\* line 30: if (tfInitialized) return true
TfGuard(flag) == flag

\* lines 41-43: tf.ready() resolved: the flag is set and true is returned.
TfOnReady(flag) == [flag |-> TRUE, ret |-> "true"]

\* Mutant of TfOnError: the flag is set although setup failed.
TfOnErrorSetsFlag(flag) == [flag |-> TRUE, ret |-> "false"]

\* lines 44-47: tf.ready() rejected: the error is logged and false is
\* returned; the flag is not assigned.
TfOnError(flag) == [flag |-> flag, ret |-> "false"]

\* ------------------------------------------------------- loadModelAsync
\* Mutant of CacheHit: the cache is never consulted.
CacheHitNever(cache) == FALSE

\* line 51: if (modelCache) return modelCache
CacheHit(cache) == cache # NoModel

\* Mutant of ProgressAt: the checkpoints of lines 60 and 66 are exchanged.
ProgressAtSwapped(checkpoint) ==
  CASE checkpoint = "start" -> 10
    [] checkpoint = "assets" -> 80
    [] checkpoint = "model" -> 30
    [] checkpoint = "ready" -> 100

\* lines 54, 60, 66, 73: the value passed to onProgress at each checkpoint.
ProgressAt(checkpoint) ==
  CASE checkpoint = "start" -> 10
    [] checkpoint = "assets" -> 30
    [] checkpoint = "model" -> 80
    [] checkpoint = "ready" -> 100

\* lines 62-72: between construction and the end of the warm-up modelCache
\* is not assigned.
CacheWhileWarming(cache, loaded) == cache

\* line 75: modelCache = loadedModel
CacheOnSuccess(cache, loaded) == loaded

\* Mutant of CacheOnThrow: the model constructed so far is cached.
CacheOnThrowKeeps(cache, loaded) == loaded

\* lines 78-81: the catch block logs and rethrows; modelCache is not assigned.
CacheOnThrow(cache, loaded) == cache

\* ---------------------------------------------------------- initializeApp
\* Mutant of TfReadyCheck: the returned boolean is not checked.
TfReadyUnchecked(tfRet) == TRUE

\* line 107: if (!tfReady) throw new Error('Failed to initialize TensorFlow')
TfReadyCheck(tfRet) == tfRet = "true"

\* lines 114-119: the onProgress callback initializeApp passes to
\* loadModelAsync: setLoadingProgress(20 + progress * 0.8).
OnProgress(u, p) == [u EXCEPT !.loadingProgress = 20 + (p * 8) \div 10]

\* lines 121-123: setModel(loadedModel); setIsReady(true); setLoadingProgress(100)
OnLoaded(u, m) == [u EXCEPT !.model = m, !.isReady = TRUE, !.loadingProgress = 100]

\* Mutant of OnInitError: the catch block swallows the failure.
OnInitErrorSwallowed(u, msg) == u

\* lines 124-127: setError(error.message || 'Failed to initialize app')
OnInitError(u, msg) == [u EXCEPT !.error = msg]

\* lines 271-276: the Retry button's onPress, before it calls initializeApp.
OnRetry(u) == [u EXCEPT !.error = "null", !.loadingProgress = 0, !.isReady = FALSE]

\* lines 101-106 and 29-39: initializeApp up to its first suspension: the
\* loading indicators are set and initializeTensorFlow runs up to its
\* guard or its await of tf.ready().
InitializeAppStart(r, i, u0) ==
  LET fast == TfGuard(tfInitialized) IN
  /\ nRuns' = r
  /\ ui' = [u0 EXCEPT !.loadingProgress = 5]
  /\ run' = [run EXCEPT ![r] =
       [IdleRun EXCEPT !.pc = IF fast THEN "tfDone" ELSE "tfReady",
                       !.inst = i,
                       !.tfAtEntry = tfInitialized,
                       !.ranSetup = ~fast,
                       !.tfRet = IF fast THEN "true" ELSE "none"]]

\* lines 130-132: HomeScreen is mounted (again): fresh component state, and
\* the effect calls initializeApp.  The module-level variables survive.
Mount ==
  /\ ~MicrotaskPending
  /\ nRuns < MaxRuns
  /\ curInst < MaxMounts
  /\ curInst' = curInst + 1
  /\ InitializeAppStart(nRuns + 1, curInst + 1, InitialUI)
  /\ UNCHANGED <<process, permission, captures>>
  /\ UNCHANGED pixels

\* lines 265-282: the error screen's Retry button.
Retry ==
  /\ ~MicrotaskPending
  /\ Screen = "error"
  /\ nRuns < MaxRuns
  /\ InitializeAppStart(nRuns + 1, curInst, OnRetry(ui))
  /\ UNCHANGED <<process, permission, curInst, captures>>
  /\ UNCHANGED pixels

\* lines 35-43: tf.ready() resolves.
TfReadyResolve(r) ==
  /\ ~MicrotaskPending
  /\ run[r].pc = "tfReady"
  /\ LET o == TfOnReady(tfInitialized) IN
     /\ tfInitialized' = o.flag
     /\ run' = [run EXCEPT ![r].pc = "tfDone", ![r].tfRet = o.ret]
  /\ UNCHANGED <<modelCache, numTensors, built, warmed, permission, curInst,
                 ui, nRuns, captures>>
  /\ UNCHANGED pixels

\* lines 44-47: tf.ready() rejects.
TfReadyReject(r) ==
  /\ ~MicrotaskPending
  /\ run[r].pc = "tfReady"
  /\ LET o == TfOnError(tfInitialized) IN
     /\ tfInitialized' = o.flag
     /\ run' = [run EXCEPT ![r].pc = "tfDone", ![r].tfRet = o.ret]
  /\ UNCHANGED <<modelCache, numTensors, built, warmed, permission, curInst,
                 ui, nRuns, captures>>
  /\ UNCHANGED pixels

\* lines 107-109, 124-127: initializeTensorFlow returned false.
InitTFFailed(r) ==
  /\ run[r].pc = "tfDone"
  /\ ~TfReadyCheck(run[r].tfRet)
  /\ ui' = SetUI(run[r].inst, OnInitError(ui, "Failed to initialize TensorFlow"))
  /\ run' = [run EXCEPT ![r] = EndedRun("failed")]
  /\ UNCHANGED <<process, permission, curInst, nRuns, captures>>
  /\ UNCHANGED pixels

\* lines 111-114, 51: loadModelAsync finds a cached model.
LoadModelCached(r) ==
  /\ run[r].pc = "tfDone"
  /\ TfReadyCheck(run[r].tfRet)
  /\ CacheHit(modelCache)
  /\ ui' = SetUI(run[r].inst, [ui EXCEPT !.loadingProgress = 20])
  /\ run' = [run EXCEPT ![r].pc = "loadDone",
                        ![r].cacheAtEntry = modelCache,
                        ![r].ret = modelCache]
  /\ UNCHANGED <<process, permission, curInst, nRuns, captures>>
  /\ UNCHANGED pixels

\* lines 111-114, 51-64: loadModelAsync finds no cached model: progress 10,
\* the two require() calls, progress 30, tf.loadLayersModel is awaited.
\* A require() that throws is caught at line 78 and rethrown.
LoadModelStart(r) ==
  /\ run[r].pc = "tfDone"
  /\ TfReadyCheck(run[r].tfRet)
  /\ ~CacheHit(modelCache)
  /\ \E assetsOk \in BOOLEAN :
       LET p1 == ProgressAt("start")
           p2 == ProgressAt("assets")
           u1 == OnProgress([ui EXCEPT !.loadingProgress = 20], p1)
       IN IF assetsOk
          THEN /\ ui' = SetUI(run[r].inst, OnProgress(u1, p2))
               /\ run' = [run EXCEPT ![r].pc = "constructing",
                                     ![r].cacheAtEntry = modelCache,
                                     ![r].progress = <<p1, p2>>]
               /\ modelCache' = modelCache
          ELSE /\ ui' = SetUI(run[r].inst, u1)
               /\ run' = [run EXCEPT ![r].pc = "loadThrown",
                                     ![r].cacheAtEntry = modelCache,
                                     ![r].progress = <<p1>>,
                                     ![r].threw = TRUE]
               /\ modelCache' = CacheOnThrow(modelCache, NoModel)
  /\ UNCHANGED <<tfInitialized, numTensors, built, warmed, permission,
                 curInst, nRuns, captures>>
  /\ UNCHANGED pixels

\* lines 62-70: tf.loadLayersModel resolves: progress 80, the dummy input is
\* allocated and the warm-up predict is called.  LayersModel.predict is
\* synchronous: it returns its output tensor, or throws, leaving the dummy
\* input allocated (line 71 is skipped).
ConstructResolve(r) ==
  /\ ~MicrotaskPending
  /\ run[r].pc = "constructing"
  /\ built' = built + 1
  /\ LET m == built + 1
         p3 == ProgressAt("model")
     IN /\ ui' = SetUI(run[r].inst, OnProgress(ui, p3))
        /\ \E warmOk \in BOOLEAN :
             IF warmOk
             THEN /\ run' = [run EXCEPT ![r].pc = "warming",
                                        ![r].loaded = m,
                                        ![r].progress = Append(@, p3),
                                        ![r].dummyLive = TRUE,
                                        ![r].warmOutLive = TRUE]
                  /\ numTensors' = numTensors + 2
                  /\ warmed' = warmed \cup {m}
                  /\ modelCache' = CacheWhileWarming(modelCache, m)
             ELSE /\ run' = [run EXCEPT ![r].pc = "loadThrown",
                                        ![r].loaded = m,
                                        ![r].progress = Append(@, p3),
                                        ![r].dummyLive = TRUE,
                                        ![r].threw = TRUE]
                  /\ numTensors' = numTensors + 1
                  /\ warmed' = warmed
                  /\ modelCache' = CacheOnThrow(modelCache, m)
  /\ UNCHANGED <<tfInitialized, permission, curInst, nRuns, captures>>
  /\ UNCHANGED pixels

\* lines 62-64, 78-81: tf.loadLayersModel rejects.
ConstructReject(r) ==
  /\ ~MicrotaskPending
  /\ run[r].pc = "constructing"
  /\ run' = [run EXCEPT ![r].pc = "loadThrown", ![r].threw = TRUE]
  /\ modelCache' = CacheOnThrow(modelCache, NoModel)
  /\ UNCHANGED <<tfInitialized, numTensors, built, warmed, permission,
                 curInst, ui, nRuns, captures>>
  /\ UNCHANGED pixels

\* lines 70-77: the await of the warm-up result resumes: the dummy input is
\* disposed, progress 100, the model is cached and returned.  The tensor
\* the warm-up predict returned is not disposed.
WarmupDone(r) ==
  /\ run[r].pc = "warming"
  /\ LET p4 == ProgressAt("ready") IN
     /\ ui' = SetUI(run[r].inst, OnProgress(ui, p4))
     /\ run' = [run EXCEPT ![r].pc = "loadDone",
                           ![r].progress = Append(@, p4),
                           ![r].dummyLive = FALSE,
                           ![r].ret = run[r].loaded]
  /\ numTensors' = numTensors - 1
  /\ modelCache' = CacheOnSuccess(modelCache, run[r].loaded)
  /\ UNCHANGED <<tfInitialized, built, warmed, permission, curInst, nRuns,
                 captures>>
  /\ UNCHANGED pixels

\* lines 121-123: loadModelAsync resolved.
InitLoaded(r) ==
  /\ run[r].pc = "loadDone"
  /\ ui' = SetUI(run[r].inst, OnLoaded(ui, run[r].ret))
  /\ run' = [run EXCEPT ![r] = EndedRun("done")]
  /\ UNCHANGED <<process, permission, curInst, nRuns, captures>>
  /\ UNCHANGED pixels

\* lines 124-127: loadModelAsync rejected.
InitLoadFailed(r) ==
  /\ run[r].pc = "loadThrown"
  /\ ui' = SetUI(run[r].inst, OnInitError(ui, "ModelLoadError"))
  /\ run' = [run EXCEPT ![r] = EndedRun("failed")]
  /\ UNCHANGED <<process, permission, curInst, nRuns, captures>>
  /\ UNCHANGED pixels

\* line 85: useCameraPermissions() delivers the stored permission status.
PermissionLoaded ==
  /\ ~MicrotaskPending
  /\ permission = "null"
  /\ curInst > 0
  /\ permission' \in {"denied", "granted"}
  /\ UNCHANGED <<process, curInst, ui, nRuns, run, captures>>
  /\ UNCHANGED pixels

\* lines 295-305: the Grant Camera Permission button.
GrantPermission ==
  /\ ~MicrotaskPending
  /\ Screen = "permissionDenied"
  /\ permission' = "granted"
  /\ UNCHANGED <<process, curInst, ui, nRuns, run, captures>>
  /\ UNCHANGED pixels

\* ------------------------------------------------------- prediction result
\* line 97: const classNames = ['Clean', 'Dirty', 'Invalid']
classNames == <<"Clean", "Dirty", "Invalid">>

\* Output vectors of the forward pass explored, one probability per class
\* in units of 1/100000.
Outputs == { <<70000, 20000, 10000>>, <<12345, 33333, 54322>> }

\* line 220: (result[index] * 100).toFixed(2) + '%': the percentage rounded
\* to two decimals, as <<whole part, hundredths>>.
Confidence(p) == LET h == (p + 5) \div 10 IN <<h \div 100, h % 100>>

\* Mutant of ResultWithAnalysis: the pairs are ordered by descending
\* confidence.
ResultByConfidence(out) ==
  LET n == Len(out)
      order == CHOOSE f \in [1..n -> 1..n] :
                 /\ \A i, j \in 1..n : i # j => f[i] # f[j]
                 /\ \A i \in 1..(n - 1) : out[f[i]] >= out[f[i + 1]]
  IN [index \in 1..n |->
        [label |-> <<"Clean", "Dirty", "Invalid">>[order[index]],
         confidence |-> LET h == (out[order[index]] + 5) \div 10
                        IN <<h \div 100, h % 100>>]]

\* lines 218-221: classNames.map((label, index) => ({label, confidence}))
ResultWithAnalysis(out) ==
  [index \in 1..Len(classNames) |->
     [label |-> classNames[index], confidence |-> Confidence(out[index])]]

\* The one-element results the handlers show for an error; confidence
\* 'null' is the empty tuple, and predictionResult null is the empty list.
ErrorResult(msg) == << [label |-> msg, confidence |-> <<>>] >>

\* ------------------------------------------------------------ processImage
\* lines 203-209: processImage called without a model.
ProcessImageNoModel(u) ==
  [u EXCEPT !.predictionResult = ErrorResult("Error: Model not loaded."),
            !.analyzing = FALSE]

\* Mutant of ProcessImageCatch: the failure is reported as an
\* initialization error and the model is dropped.
ProcessImageCatchResets(u) ==
  [u EXCEPT !.predictionResult = << [label |-> "Error: Failed to process image.", confidence |-> <<>>] >>,
            !.error = "Failed to process image", !.model = 0, !.isReady = FALSE]

\* lines 227-231: the catch block of processImage.
ProcessImageCatch(u) ==
  [u EXCEPT !.predictionResult = ErrorResult("Error: Failed to process image.")]

\* Mutant of ProcessImageFinally: there is no finally block.
ProcessImageFinallyMissing(u) == u

\* lines 232-234: the finally block of processImage.
ProcessImageFinally(u) == [u EXCEPT !.analyzing = FALSE]

\* line 226: setPredictionResult(resultWithAnalysis)
ProcessImageResult(u, out) == [u EXCEPT !.predictionResult = ResultWithAnalysis(out)]

\* lines 587-593: the tensors imageToTensor creates: imageTensor, resized
\* and batched; batched is returned, the other two are not disposed.
TensorsOfDecode == [created |-> 3, kept |-> 2]

\* lines 223-224: imageTensor.dispose(); prediction.dispose()
DisposeAfterPredict(cl) == [cl EXCEPT !.inLive = FALSE, !.outLive = FALSE]

\* The number of live tensors a call has created.
Held(cl) ==
  cl.interLive + (IF cl.inLive THEN 1 ELSE 0) + (IF cl.outLive THEN 1 ELSE 0)

\* A handler call returns: its slot is freed and lastDone remembers how.
Return(c, cl, how) ==
  /\ call' = [call EXCEPT ![c] = DoneCall]
  /\ lastDone' = Ended(cl, how)

\* lines 202-212 and 569-593: processImage up to its first suspension.
\* imageToTensor is an async function without an await: its body runs
\* inside the call, and jpeg.decode either throws or the three tensors are
\* created.  u0 is the component state the caller has set so far.
ProcessImageStart(c, u0) ==
  LET cl == [call[c] EXCEPT !.afterFail = predictFailed] IN
  IF cl.model = NoModel
  THEN /\ ui' = SetUI(cl.inst, ProcessImageNoModel(u0))
       /\ Return(c, cl, "errModel")
       /\ numTensors' = numTensors
  ELSE \E decodeOk \in BOOLEAN :
         /\ ui' = SetUI(cl.inst, u0)
         /\ lastDone' = lastDone
         /\ IF decodeOk
            THEN /\ call' = [call EXCEPT ![c] =
                      [cl EXCEPT !.pc = "decoded",
                                 !.interLive = TensorsOfDecode.kept,
                                 !.inLive = TRUE]]
                 /\ numTensors' = numTensors + TensorsOfDecode.created
            ELSE /\ call' = [call EXCEPT ![c] = [cl EXCEPT !.pc = "decodeFailed"]]
                 /\ numTensors' = numTensors

\* lines 227-234: processImage fails: the catch and the finally block run,
\* lines 223-224 are skipped, and processImage and its caller return.
ProcessImageFail(c) ==
  /\ ui' = SetUI(call[c].inst, ProcessImageFinally(ProcessImageCatch(ui)))
  /\ Return(c, call[c], "errProcess")
  /\ predictFailed' = TRUE
  /\ UNCHANGED <<process, permission, curInst, nRuns, run, nCalls>>

\* line 212: the await of imageToTensor rejects.
DecodeFailed(c) ==
  /\ call[c].pc = "decodeFailed"
  /\ ProcessImageFail(c)
  /\ UNCHANGED pixels

\* lines 213-214: model.predict(imageTensor) returns the prediction tensor
\* and prediction.data() is awaited.
ForwardPass(c) ==
  /\ call[c].pc = "decoded"
  /\ call' = [call EXCEPT ![c].pc = "reading", ![c].outLive = TRUE]
  /\ numTensors' = numTensors + 1
  /\ UNCHANGED <<tfInitialized, modelCache, built, warmed, permission,
                 curInst, ui, nRuns, run, nCalls, lastDone, predictFailed>>
  /\ UNCHANGED pixels

\* line 213: model.predict throws.
ForwardPassThrows(c) ==
  /\ call[c].pc = "decoded"
  /\ ProcessImageFail(c)
  /\ UNCHANGED pixels

\* lines 214-226, 232-234: prediction.data() resolves: the result is built,
\* imageTensor and prediction are disposed, the result is shown.
DataResolve(c) ==
  /\ ~MicrotaskPending
  /\ call[c].pc = "reading"
  /\ \E out \in Outputs :
       LET cl == DisposeAfterPredict([call[c] EXCEPT !.out = out]) IN
       /\ ui' = SetUI(call[c].inst, ProcessImageFinally(ProcessImageResult(ui, out)))
       /\ Return(c, cl, "ok")
       /\ numTensors' = numTensors - (Held(call[c]) - Held(cl))
  /\ UNCHANGED <<tfInitialized, modelCache, built, warmed, permission,
                 curInst, nRuns, run, nCalls, predictFailed>>
  /\ UNCHANGED pixels

\* line 214: prediction.data() rejects.
DataReject(c) ==
  /\ ~MicrotaskPending
  /\ call[c].pc = "reading"
  /\ ProcessImageFail(c)
  /\ UNCHANGED pixels

\* ----------------------------------------------------------- handleCapture
\* line 331: cameraRef.current is set while the CameraView is rendered.
CameraRef == Screen = "main"

\* lines 327-349: the Take Photo button is rendered on the main screen and
\* its onPress is handleCapture; the button has no disabled state.
CanCapture == Screen = "main"

\* lines 327-356: the Upload Image button is rendered on the main screen
\* and its onPress is handleImageUpload; the button has no disabled state.
CanUpload == Screen = "main"

\* lines 250-255: the catch block of handleCapture.
CaptureCatch(u) ==
  [u EXCEPT !.predictionResult = ErrorResult("Error: Failed to capture photo."),
            !.analyzing = FALSE]

\* lines 192-198: the catch block of handleImageUpload.
UploadCatch(u) ==
  [u EXCEPT !.predictionResult = ErrorResult("Error: Failed to upload image."),
            !.analyzing = FALSE]

\* lines 237-244: Take Photo pressed: setAnalyzing(true), and when the
\* camera reference and the model are there, takePictureAsync is awaited.
TakePhoto ==
  /\ ~MicrotaskPending
  /\ CanCapture
  /\ nCalls < MaxCalls
  /\ nCalls' = nCalls + 1
  /\ ui' = [ui EXCEPT !.analyzing = TRUE]
  /\ LET c == nCalls + 1
         cl == [IdleCall EXCEPT !.inst = curInst, !.model = ui.model]
     IN IF CameraRef /\ ui.model # NoModel
        THEN /\ call' = [call EXCEPT ![c] = [cl EXCEPT !.pc = "taking"]]
             /\ lastDone' = lastDone
        ELSE Return(c, cl, "noCamera")
  /\ UNCHANGED <<process, permission, curInst, nRuns, run, predictFailed>>
  /\ UNCHANGED pixels

\* lines 241-249: takePictureAsync resolves with base64 data and
\* processImage is called.
PhotoTaken(c) ==
  /\ ~MicrotaskPending
  /\ call[c].pc = "taking"
  /\ ProcessImageStart(c, ui)
  /\ UNCHANGED <<tfInitialized, modelCache, built, warmed, permission,
                 curInst, nRuns, run, nCalls, predictFailed>>
  /\ UNCHANGED pixels

\* lines 241-256: takePictureAsync rejects, or resolves without base64
\* (line 247 throws).
PhotoFailed(c) ==
  /\ ~MicrotaskPending
  /\ call[c].pc = "taking"
  /\ ui' = SetUI(call[c].inst, CaptureCatch(ui))
  /\ Return(c, call[c], "errCapture")
  /\ UNCHANGED <<process, permission, curInst, nRuns, run, nCalls,
                 predictFailed>>
  /\ UNCHANGED pixels

\* ------------------------------------------------------- handleImageUpload
\* lines 156-157, 135-136: Upload Image pressed: the media library
\* permission is requested.
UploadPress ==
  /\ ~MicrotaskPending
  /\ CanUpload
  /\ nCalls < MaxCalls
  /\ nCalls' = nCalls + 1
  /\ call' = [call EXCEPT ![nCalls + 1] =
       [IdleCall EXCEPT !.inst = curInst, !.model = ui.model, !.pc = "permAsk"]]
  /\ UNCHANGED <<process, permission, curInst, ui, nRuns, run, lastDone,
                 predictFailed>>
  /\ UNCHANGED pixels

\* lines 137-141, 158: permission refused: handleImageUpload returns.
MediaPermissionDenied(c) ==
  /\ ~MicrotaskPending
  /\ call[c].pc = "permAsk"
  /\ Return(c, call[c], "denied")
  /\ UNCHANGED <<process, permission, curInst, ui, nRuns, run, nCalls,
                 predictFailed>>
  /\ UNCHANGED pixels

\* lines 141, 160-167: permission granted: the picker is launched.
MediaPermissionGranted(c) ==
  /\ ~MicrotaskPending
  /\ call[c].pc = "permAsk"
  /\ call' = [call EXCEPT ![c].pc = "picking"]
  /\ UNCHANGED <<process, permission, curInst, ui, nRuns, run, nCalls,
                 lastDone, predictFailed>>
  /\ UNCHANGED pixels

\* lines 169-188: an image with base64 data was picked: setAnalyzing(true)
\* and processImage is called.
ImagePicked(c) ==
  /\ ~MicrotaskPending
  /\ call[c].pc = "picking"
  /\ ProcessImageStart(c, [ui EXCEPT !.analyzing = TRUE])
  /\ UNCHANGED <<tfInitialized, modelCache, built, warmed, permission,
                 curInst, nRuns, run, nCalls, predictFailed>>
  /\ UNCHANGED pixels

\* lines 169, 189-191: the picker was cancelled: setAnalyzing(false).
PickCanceled(c) ==
  /\ ~MicrotaskPending
  /\ call[c].pc = "picking"
  /\ ui' = SetUI(call[c].inst, [ui EXCEPT !.analyzing = FALSE])
  /\ Return(c, call[c], "canceled")
  /\ UNCHANGED <<process, permission, curInst, nRuns, run, nCalls,
                 predictFailed>>
  /\ UNCHANGED pixels

\* lines 161, 173-175, 192-198: the picker rejects, or the asset has no
\* base64 data (line 174 throws).
PickFailed(c) ==
  /\ ~MicrotaskPending
  /\ call[c].pc = "picking"
  /\ ui' = SetUI(call[c].inst, UploadCatch(ui))
  /\ Return(c, call[c], "errUpload")
  /\ UNCHANGED <<process, permission, curInst, nRuns, run, nCalls,
                 predictFailed>>
  /\ UNCHANGED pixels

\* lines 376-381: the Close button of the result panel.
ClosePress ==
  /\ ~MicrotaskPending
  /\ Screen = "main"
  /\ ~ui.analyzing
  /\ ui.predictionResult # <<>>
  /\ ui' = [ui EXCEPT !.predictionResult = <<>>]
  /\ UNCHANGED <<process, permission, curInst, nRuns, run, captures>>
  /\ UNCHANGED pixels

CaptureNext ==
  \/ TakePhoto
  \/ UploadPress
  \/ ClosePress
  \/ \E c \in Calls :
       \/ PhotoTaken(c)
       \/ PhotoFailed(c)
       \/ MediaPermissionDenied(c)
       \/ MediaPermissionGranted(c)
       \/ ImagePicked(c)
       \/ PickCanceled(c)
       \/ PickFailed(c)
       \/ DecodeFailed(c)
       \/ ForwardPass(c)
       \/ ForwardPassThrows(c)
       \/ DataResolve(c)
       \/ DataReject(c)

InitNext ==
  \/ Mount
  \/ Retry
  \/ PermissionLoaded
  \/ GrantPermission
  \/ \E r \in Runs :
       \/ TfReadyResolve(r)
       \/ TfReadyReject(r)
       \/ InitTFFailed(r)
       \/ LoadModelCached(r)
       \/ LoadModelStart(r)
       \/ ConstructResolve(r)
       \/ ConstructReject(r)
       \/ WarmupDone(r)
       \/ InitLoaded(r)
       \/ InitLoadFailed(r)

Next == InitNext \/ CaptureNext

Spec == Init /\ [][Next]_vars

\* ======================================================== imageToTensor
\* lines 569-594, step by step on one decoded image.  The tensors' values
\* are rationals num/den; float32 rounding is not modelled.

\* Largest width and height of the small images.
MaxDim == 2

\* One image wider (and one taller) than the target, so that the resize
\* also shrinks.
WideDim == 225

\* line 581: i += 4, the RGBA stride of jpeg-js' data.
Stride == 4

\* line 578: three channels are kept per pixel.
Channels == 3

\* lines 582-584: the divisor.
ByteMax == 255

\* line 590: the side of the resized image.
TargetSize == 224

\* jpeg.decode with useTArray returns a Uint8Array of width * height * 4
\* bytes (line 572); arrays keep the source's indexes, from 0.
Shapes ==
  {wh \in (1..MaxDim) \X (1..MaxDim) : TRUE} \cup {<<WideDim, 1>>, <<1, WideDim>>}

Colours == { <<0, 0, 0, 255>>, <<255, 255, 255, 0>>, <<10, 128, 200, 77>> }

Solid(w, h, col) ==
  [width |-> w, height |-> h,
   data |-> [k \in 0..(w * h * Stride - 1) |-> col[(k % Stride) + 1]]]

Gradient(w, h) ==
  [width |-> w, height |-> h,
   data |-> [k \in 0..(w * h * Stride - 1) |-> (37 * k + 11) % (ByteMax + 1)]]

Images ==
  {Solid(wh[1], wh[2], col) : wh \in Shapes, col \in Colours}
    \cup {Gradient(wh[1], wh[2]) : wh \in Shapes}

\* lines 582-584 with the division left out.
NormalizeRaw(b) == [num |-> b, den |-> 1]

\* lines 582-584: data[i] / 255.
Normalize(b) == [num |-> b, den |-> ByteMax]

\* line 578: new Float32Array(n) is zero-filled.
Float32Array(n) == [k \in 0..(n - 1) |-> [num |-> 0, den |-> Normalize(0).den]]

\* A typed array ignores a write outside its length.
Store(buf, k, v) == IF k \in DOMAIN buf THEN [buf EXCEPT ![k] = v] ELSE buf

\* lines 581-585 copying all four bytes of the pixel.
LoopBodyWithAlpha(st, data) ==
  [st EXCEPT
     !.buffer = Store(Store(Store(Store(@,
                  st.offset, Normalize(data[st.i])),
                  st.offset + 1, Normalize(data[st.i + 1])),
                  st.offset + 2, Normalize(data[st.i + 2])),
                  st.offset + 3, Normalize(data[st.i + 3])),
     !.offset = @ + 4,
     !.i = @ + Stride]

\* lines 581-585: one iteration of the loop, its increment included.
LoopBody(st, data) ==
  [st EXCEPT
     !.buffer = Store(Store(Store(@,
                  st.offset, Normalize(data[st.i])),
                  st.offset + 1, Normalize(data[st.i + 1])),
                  st.offset + 2, Normalize(data[st.i + 2])),
     !.offset = @ + 3,
     !.i = @ + Stride]

\* line 590 skipped: the tensor keeps the image's own shape.
ResizeShapeKept(shape) == shape

\* line 590: resizeBilinear(imageTensor, [224, 224]) keeps the channels.
ResizeShape(shape) == <<TargetSize, TargetSize, shape[3]>>

\* line 591: expandDims(0).
ExpandDims(shape) == <<1>> \o shape

\* line 587: tensor3d(buffer, [height, width, 3]) is row-major.
At(buf, w, y, x, c) == buf[(y * w + x) * Channels + c]

Min(a, b) == IF a < b THEN a ELSE b

\* line 590: tfjs' resizeBilinear without alignCorners and halfPixelCenters.
\* The source coordinate of output index o is o * size / 224; the value
\* is interpolated between its floor and min(size - 1, ceil).  The result
\* is a rational over den * 224 * 224.
Lo(o, size) == (o * size) \div TargetSize

Frac(o, size) == (o * size) % TargetSize

Hi(o, size) == Min(size - 1, Lo(o, size) + (IF Frac(o, size) > 0 THEN 1 ELSE 0))

ResizeBilinear(buf, w, h, y, x, c) ==
  LET fy == Frac(y, h)
      fx == Frac(x, w)
      tl == At(buf, w, Lo(y, h), Lo(x, w), c).num
      tr == At(buf, w, Lo(y, h), Hi(x, w), c).num
      bl == At(buf, w, Hi(y, h), Lo(x, w), c).num
      br == At(buf, w, Hi(y, h), Hi(x, w), c).num
      top == (TargetSize - fx) * tl + fx * tr
      bottom == (TargetSize - fx) * bl + fx * br
  IN [num |-> (TargetSize - fy) * top + fy * bottom,
      den |-> At(buf, w, 0, 0, c).den * TargetSize * TargetSize]

\* lines 572-579: the image is decoded, the buffer allocated.
Decode ==
  /\ it.pc = "idle"
  /\ img # NoImage
  /\ it' = [it EXCEPT !.pc = "loop", !.i = 0, !.offset = 0,
                      !.buffer = Float32Array(img.width * img.height * Channels)]
  /\ UNCHANGED <<img, app>>

\* lines 581-585: one iteration.
LoopStep ==
  /\ it.pc = "loop"
  /\ it.i < img.width * img.height * Stride
  /\ it' = LoopBody(it, img.data)
  /\ UNCHANGED <<img, app>>

\* lines 581, 587: the loop ends; tensor3d takes the buffer.
Tensor3d ==
  /\ it.pc = "loop"
  /\ ~(it.i < img.width * img.height * Stride)
  /\ it' = [it EXCEPT !.pc = "tensor3d",
                      !.shape = <<img.height, img.width, Channels>>]
  /\ UNCHANGED <<img, app>>

\* line 590.
Resize ==
  /\ it.pc = "tensor3d"
  /\ it' = [it EXCEPT !.pc = "resized", !.shape = ResizeShape(@)]
  /\ UNCHANGED <<img, app>>

\* lines 591-593.
ReturnBatched ==
  /\ it.pc = "resized"
  /\ it' = [it EXCEPT !.pc = "returned", !.shape = ExpandDims(@)]
  /\ UNCHANGED <<img, app>>

\* The caller reads the returned tensor, one row after the other.
ReadRow ==
  /\ it.pc = "returned"
  /\ it.row + 1 < it.shape[2]
  /\ it' = [it EXCEPT !.row = @ + 1]
  /\ UNCHANGED <<img, app>>

\* The value of the returned tensor at [0, y, x, c].
Batched(y, x, c) == ResizeBilinear(it.buffer, img.width, img.height, y, x, c)

TensorInit ==
  /\ AppInit
  /\ img \in Images
  /\ it = NotConverting

TensorNext ==
  \/ Decode
  \/ LoopStep
  \/ Tensor3d
  \/ Resize
  \/ ReturnBatched
  \/ ReadRow

TensorSpec == TensorInit /\ [][TensorNext]_vars

\* ================================================================ claims
\* p is an initial segment of q.
IsPrefix(p, q) == Len(p) <= Len(q) /\ \A k \in 1..Len(p) : p[k] = q[k]

\* loadModelAsync has been called by run r and has not yet been left.
InLoadModel(r) == run[r].pc \in {"constructing", "warming", "loadDone", "loadThrown"}

\* processImage of call c is between its decode and its finally block.
InProcessImage(c) == call[c].pc \in {"decoded", "decodeFailed", "reading"}

\* A handler call is in flight.
InFlight(c) == call[c].pc \notin {"idle", "done"}

\* Handle m has left loadModelAsync: it is warmed up and no run is still
\* inside the warm-up with it.
Loaded(m) ==
  /\ m # NoModel
  /\ m \in warmed
  /\ \A r \in Runs : run[r].pc = "warming" => run[r].loaded # m

\* C1: in every run of the app, loadModelAsync is only entered after
\* initializeTensorFlow has returned true (the flag is set); model.predict
\* is only invoked on a user image with a model whose loading and warm-up
\* have completed; and the capture and upload handlers are only reachable
\* (main screen, or a handler call in flight) once initialization has
\* reached Ready: isReady set, the component's model loaded and cached.
C1_InitSequencing ==
  /\ \A r \in Runs :
       InLoadModel(r) => tfInitialized /\ run[r].tfRet = "true"
  /\ \A c \in Calls :
       InFlight(c) =>
         /\ tfInitialized
         /\ Loaded(call[c].model)
         /\ modelCache # NoModel
  /\ Screen = "main" =>
       /\ ui.isReady
       /\ tfInitialized
       /\ Loaded(ui.model)
       /\ modelCache # NoModel

\* C1 witness: model.predict has been invoked on a user image.
C1_Witness == \E c \in Calls : call[c].pc = "reading"

\* C2: a loadModelAsync call that begins when a model is cached returns
\* that cached handle, which an earlier call loaded and warmed up, without
\* calling onProgress and without constructing or warming up a model.
C2_CachedLoad ==
  \A r \in Runs :
    (run[r].pc = "loadDone" /\ run[r].cacheAtEntry > NoModel) =>
      /\ run[r].ret = run[r].cacheAtEntry
      /\ Loaded(run[r].ret)
      /\ run[r].progress = <<>>
      /\ run[r].loaded = NoModel
      /\ ~run[r].dummyLive /\ ~run[r].warmOutLive

\* C2 witness: a second call has returned the cached handle.
C2_Witness ==
  \E r \in Runs : run[r].pc = "loadDone" /\ run[r].cacheAtEntry > NoModel

\* C3: over all loadModelAsync calls and interleavings, construction plus
\* warm-up succeeds at most once, and every holder has the same handle.
C3_InitializedOnce ==
  /\ Cardinality(warmed) <= 1
  /\ \A r \in Runs : run[r].pc = "loadDone" => run[r].ret = 1
  /\ ui.model \in {NoModel, modelCache}

\* C4: the values passed to onProgress by one call are an initial segment
\* of 10, 30, 80, 100; a call that found no cached model and resolves has
\* reported all four before resolving; a call that throws has not
\* reported 100.
C4_Progress ==
  \A r \in Runs :
    /\ IsPrefix(run[r].progress, <<10, 30, 80, 100>>)
    /\ (run[r].pc = "loadDone" /\ run[r].cacheAtEntry = NoModel) =>
         run[r].progress = <<10, 30, 80, 100>>
    /\ run[r].pc = "loadThrown" => Len(run[r].progress) \in 1..3

\* C4 witness: an uncached call resolved after reporting 10, 30, 80, 100.
C4_Witness ==
  \E r \in Runs :
    /\ run[r].pc = "loadDone"
    /\ run[r].cacheAtEntry = NoModel
    /\ Len(run[r].progress) = 4

\* C5 (state part): a call that failed has thrown, has not reported 100,
\* and its model is not in the cache; the cache only ever holds a model
\* whose warm-up has completed.
C5_Inv ==
  /\ \A r \in Runs :
       run[r].pc = "loadThrown" =>
         /\ run[r].threw
         /\ \A k \in 1..Len(run[r].progress) : run[r].progress[k] # 100
         /\ run[r].loaded # NoModel => modelCache # run[r].loaded
  /\ modelCache # NoModel => Loaded(modelCache)

\* C5 (step part): the failing step does not touch the cache; the thrown
\* error reaches initializeApp's catch block, which sets the error state;
\* and a call that begins with an empty cache performs the full load.
C5_Step ==
  \A r \in Runs :
    /\ (run'[r].pc = "loadThrown" /\ run[r].pc # "loadThrown") =>
         modelCache' = modelCache
    /\ run[r].pc = "loadThrown" =>
         /\ run'[r].pc \in {"loadThrown", "failed"}
         /\ (run'[r].pc = "failed" /\ run[r].inst = curInst) => ui'.error # "null"
    /\ (run[r].pc = "tfDone" /\ modelCache = NoModel /\ run'[r].pc # "tfDone") =>
         run'[r].pc \in {"failed", "constructing", "loadThrown"}

\* C5: a failure inside loadModelAsync is rethrown to the caller, leaves
\* no partially loaded model in the cache, never reports 100, and a later
\* call performs the full load again.
C5_FailurePropagates == []C5_Inv /\ [][C5_Step]_vars

\* C5 witness: after a call whose warm-up failed (a model was constructed
\* and never warmed), the cache is empty and a later call is loading again.
C5_Witness ==
  \E r, q \in Runs :
    /\ run[q].pc = "failed"
    /\ run[r].pc = "constructing"
    /\ built > Cardinality(warmed)
    /\ modelCache = NoModel

\* C6 (state part): initializeTensorFlow returns a boolean, true only with
\* the flag set, false only after it ran tf.ready(); a call that finds the
\* flag false runs tf.ready().
C6_Inv ==
  \A r \in Runs :
    /\ run[r].pc = "tfDone" =>
         /\ run[r].tfRet \in {"true", "false"}
         /\ run[r].tfRet = "true" => tfInitialized
         /\ run[r].tfRet = "false" => run[r].ranSetup
    /\ (run[r].pc \in {"tfReady", "tfDone"} /\ ~run[r].tfAtEntry) => run[r].ranSetup

\* C6 (step part): the step in which tf.ready() fails returns false to
\* initializeApp and leaves the flag as it was.
C6_Step ==
  \A r \in Runs :
    (run[r].pc = "tfReady" /\ run'[r].pc = "tfDone" /\ run'[r].tfRet # "true") =>
      /\ run'[r].tfRet = "false"
      /\ tfInitialized' = tfInitialized

\* C6: initializeTensorFlow never throws: on failure it returns false and
\* does not set the flag, so that a later call runs setup again; it
\* returns true only when setup has succeeded.
C6_NeverThrows == []C6_Inv /\ [][C6_Step]_vars

\* C6 witness: setup failed, the flag is still false, and a later call is
\* running tf.ready() again.
C6_Witness ==
  \E r, q \in Runs :
    /\ run[q].pc = "failed"
    /\ run[r].pc = "tfReady"
    /\ ~tfInitialized
    /\ built = 0

\* C7 (state part): a call that begins with the flag set returns true
\* without running tf.ready().
C7_Inv ==
  \A r \in Runs :
    run[r].tfAtEntry =>
      /\ ~run[r].ranSetup
      /\ run[r].pc # "tfReady"
      /\ run[r].pc = "tfDone" => run[r].tfRet = "true"

\* C7: once the flag is set every later initializeTensorFlow call returns
\* true at once without tf.ready(), and the flag is never reset.
C7_Idempotent == []C7_Inv /\ [][tfInitialized => tfInitialized']_vars

\* C7 witness: a call began with the flag set and has returned.
C7_Witness == \E r \in Runs : run[r].pc = "tfDone" /\ run[r].tfAtEntry

\* C8: after any processImage call completes, with a result or with an
\* error, every tensor it created (the input tensor, the prediction
\* tensor, the tensors of imageToTensor) has been released.
C8_TensorsReleased ==
  lastDone.result \in {"ok", "errProcess"} =>
    /\ ~lastDone.inLive
    /\ ~lastDone.outLive
    /\ lastDone.interLive = 0

\* The init state a capture failure must leave alone.
InitState == <<modelCache, tfInitialized, ui.model, ui.isReady, ui.error, Screen>>

\* C9 (step part): the step in which a processImage fails leaves the
\* cached model, the initialized flag, the component's model, isReady and
\* error unchanged (the capture buttons stay available), and shows the
\* failure as that capture's result.
C9_Step ==
  \A c \in Calls :
    (InProcessImage(c) /\ call'[c].pc = "done" /\ lastDone'.result = "errProcess") =>
      /\ InitState' = InitState
      /\ call[c].inst = curInst =>
           /\ ui'.predictionResult = ErrorResult("Error: Failed to process image.")
           /\ ~ui'.analyzing

\* C9 (state part): whatever failed before, a forward pass runs on a
\* loaded, cached model, and a completed call that began after a failure
\* needed no further initialization run than those already made.
C9_Inv ==
  /\ \A c \in Calls : InProcessImage(c) => Loaded(call[c].model)
  /\ predictFailed => (modelCache # NoModel /\ tfInitialized)

\* C9: a decode or inference failure of one capture leaves the cached
\* model and the initialization state unchanged, so that a later capture
\* succeeds without re-initialization.
C9_FailureIsScoped == []C9_Inv /\ [][C9_Step]_vars

\* C9 witness: a capture succeeded after an earlier one had failed, with
\* no initialization run beyond the first.
C9_Witness ==
  /\ lastDone.result = "ok"
  /\ lastDone.afterFail
  /\ nRuns = 1

\* C10: capture requests are serialized: at most one processImage /
\* model.predict call is in flight at any time.
C10_Serialized == Cardinality({c \in Calls : InProcessImage(c)}) <= 1

\* The percentage string line 220 yields for probability p (in 1/100000):
\* p * 100 rounded half up to two decimals, as <<whole part, hundredths>>.
Percent(p) == <<((p + 5) \div 10) \div 100, ((p + 5) \div 10) % 100>>

\* C11 (step part): the result shown for a successful forward pass has one
\* pair per class, the i-th pair carrying the i-th label of the fixed list
\* and the percentage of the i-th output element.
C11_Step ==
  \A c \in Calls :
    (call[c].pc = "reading" /\ lastDone'.result = "ok" /\ call'[c].pc = "done"
       /\ call[c].inst = curInst) =>
      /\ lastDone'.out \in Outputs
      /\ Len(ui'.predictionResult) = 3
      /\ \A i \in 1..3 :
           /\ ui'.predictionResult[i].label = <<"Clean", "Dirty", "Invalid">>[i]
           /\ ui'.predictionResult[i].confidence = Percent(lastDone'.out[i])

\* C11: every successful forward pass is shown as one (label, confidence)
\* pair per class in the declared order of the label list, paired by
\* position and never reordered.
C11_PositionalPairs == [][C11_Step]_vars

\* C11 witness: an output vector whose last class is the most probable
\* one is on screen, its first pair still labelled with the first class.
C11_Witness ==
  /\ lastDone.result = "ok"
  /\ lastDone.out[1] < lastDone.out[3]
  /\ Len(ui.predictionResult) = 3
  /\ ui.predictionResult[1].label = "Clean"
  /\ ui.predictionResult[3].confidence = Percent(lastDone.out[3])

\* A tensor value within [0, 1].
InUnit(v) == v.den > 0 /\ 0 <= v.num /\ v.num <= v.den

\* C12: for a decoded image of any width and height >= 1, imageToTensor
\* returns a tensor of shape [1, 224, 224, 3] whose every value lies in
\* [0, 1], whatever the source dimensions and aspect ratio.
C12_ShapeAndRange ==
  it.pc = "returned" =>
    /\ it.shape = <<1, 224, 224, 3>>
    /\ it.row >= 0 =>
         \A x \in 0..223 : \A c \in 0..2 : InUnit(Batched(it.row, x, c))

C12_Witness ==
  /\ it.pc = "returned"
  /\ img.width # img.height
  /\ it.row = 223
  /\ Batched(it.row, 100, 1).num > 0
  /\ Batched(it.row, 100, 1).num < Batched(it.row, 100, 1).den
  /\ Batched(it.row, 100, 1) # Batched(it.row, 101, 1)

\* C16: for a pixel buffer of 4 * width * height bytes the normalization
\* loop writes exactly width * height * 3 entries, output[3p + c] is
\* input[4p + c] / 255 for c in {0, 1, 2}, the alpha byte is never written,
\* the cursor advances by 3 per input stride of 4 and never exceeds the
\* allocated length.
C16_NormalizationLoop ==
  it.pc \in {"loop", "tensor3d"} =>
    LET n == img.width * img.height IN
      /\ DOMAIN img.data = 0..(4 * n - 1)
      /\ DOMAIN it.buffer = 0..(3 * n - 1)
      /\ it.i % 4 = 0
      /\ it.offset * 4 = it.i * 3
      /\ it.offset <= 3 * n
      /\ it.pc = "tensor3d" => it.offset = 3 * n
      /\ \A k \in 0..(3 * n - 1) :
           IF k < it.offset
             THEN it.buffer[k] = [num |-> img.data[4 * (k \div 3) + (k % 3)],
                                  den |-> 255]
             ELSE it.buffer[k].num = 0

C16_Witness ==
  /\ it.pc = "tensor3d"
  /\ img.width * img.height > 1
  /\ it.offset = img.width * img.height * 3
  /\ img.data[3] # img.data[4]
  /\ it.buffer[3].num = img.data[4]
  /\ it.buffer[2].num = img.data[2]

\* C13: when imageToTensor returns, the [height, width, 3] tensor and the
\* un-batched resized tensor have been released: the call has added
\* exactly one live tensor, the one it hands to its caller.
C13_IntermediatesReleased ==
  \A c \in Calls :
    call[c].pc = "decoded" => call[c].inLive /\ call[c].interLive = 0

\* C17: when loadModelAsync returns or throws, the dummy input of the
\* warm-up and the tensor the warm-up inference returned have both been
\* released.
C17_WarmupReleased ==
  \A r \in Runs :
    run[r].pc \in {"loadDone", "loadThrown"} =>
      ~run[r].dummyLive /\ ~run[r].warmOutLive

\* The order of the stages of one initialization run; a run that finds
\* the platform ready or the model cached enters at that stage.
StageOrder ==
  { <<"idle", "tfReady">>, <<"idle", "tfDone">>, <<"tfReady", "tfDone">>,
    <<"tfDone", "constructing">>, <<"tfDone", "loadDone">>,
    <<"constructing", "warming">>, <<"warming", "loadDone">>,
    <<"loadDone", "done">> }

\* C14: within one initialization run the lifecycle advances only in the
\* order Uninitialized, PlatformReady, ModelLoading, Warming, Ready, with
\* Failed reachable from every stage before the end; the model is cached
\* only when its warm-up has finished; once a model is cached it is never
\* cleared or replaced.
C14_Step ==
  /\ \A r \in Runs :
       run'[r].pc # run[r].pc =>
         /\ run[r].pc \notin {"done", "failed"}
         /\ \/ run'[r].pc \in {"loadThrown", "failed"}
            \/ <<run[r].pc, run'[r].pc>> \in StageOrder
  /\ modelCache' # modelCache =>
       /\ modelCache' \in warmed
       /\ \E r \in Runs : run[r].pc = "warming" /\ run'[r].pc = "loadDone"
                            /\ modelCache' = run[r].loaded
       /\ modelCache = NoModel

C14_Lifecycle == [][C14_Step]_vars

\* C15 (state part): while an initialization error is set, the capture and
\* upload buttons are not rendered and no handler call of the mounted
\* screen is under way.
C15_Inv ==
  ui.error # "null" =>
    /\ Screen = "error"
    /\ ~CanCapture /\ ~CanUpload
    /\ \A c \in Calls : InFlight(c) => call[c].inst # curInst

\* C15 (step part): the step in which a run of the mounted screen fails
\* sets the error and starts nothing; a run starts only with a mount or
\* with a Retry press on the error screen, one run per press, entering at
\* the platform check with the error cleared.
C15_Step ==
  /\ \A r \in Runs :
       (run[r].pc # "failed" /\ run'[r].pc = "failed" /\ run[r].inst = curInst) =>
         /\ ui'.error # "null"
         /\ Screen' = "error"
         /\ nRuns' = nRuns
  /\ nRuns' # nRuns =>
       /\ nRuns' = nRuns + 1
       /\ \A r \in Runs \ {nRuns'} : run'[r] = run[r]
       /\ run[nRuns'].pc = "idle"
       /\ run'[nRuns'].pc \in {"tfReady", "tfDone"}
       /\ run'[nRuns'].cacheAtEntry = IdleRun.cacheAtEntry
       /\ run'[nRuns'].inst = curInst'
       /\ ui'.error = "null"
       /\ \/ curInst' = curInst + 1
          \/ curInst' = curInst /\ ui.error # "null"

C15_InitFailure == []C15_Inv /\ [][C15_Step]_vars

\* C15 witness: the first run of the screen failed and the run a Retry
\* press started has failed as well: the error screen is shown again.
C15_Witness ==
  /\ curInst = 1
  /\ nRuns = 2
  /\ run[1].pc = "failed"
  /\ run[2].pc = "failed"
  /\ Screen = "error"

\* C18 (step part): the step in which a Take Photo or Upload Image call
\* of the mounted screen returns, on whichever path (result, capture,
\* decode or inference error, cancelled picker, missing base64, missing
\* camera reference or model), leaves analyzing false.  Only the call
\* that ends at the media-library permission has never touched the flag.
C18_Step ==
  \A c \in Calls :
    (call[c].pc \in {"idle", "taking", "picking", "decoded", "decodeFailed", "reading"}
       /\ call'[c].pc = "done" /\ curInst' = curInst
       /\ (call[c].inst = curInst \/ call[c].pc = "idle")) =>
      ~ui'.analyzing

\* C18 (state part): analyzing is not left set: when no call of the
\* mounted screen is under way, analyzing is false.
C18_Inv ==
  (\A c \in Calls : InFlight(c) => call[c].inst # curInst) => ~ui.analyzing

C19_AnalyzingWhileInFlight ==
  \A c \in Calls :
    (InProcessImage(c) /\ call[c].inst = curInst) => ui.analyzing

\* C20: in every reachable state of the screen, isReady implies that the
\* component's model is non-null and is the process-wide cached model,
\* that the platform flag is set and that no initialization error is set.
C20_ReadyConsistent ==
  ui.isReady =>
    /\ ui.model # NoModel
    /\ ui.model = modelCache
    /\ tfInitialized
    /\ ui.error = "null"

=============================================================================
